---- MODULE Spec2Model ----
(***************************************************************************)
(* Model of src/validators/utils.py of the v3-operator:                    *)
(*   - the oracle approval round (send_approval_requests and the per-oracle*)
(*     replica loop with its failure classification),                      *)
(*   - the parallel keystore loader (load_keystores on a multiprocessing   *)
(*     Pool with an error callback that closes the pool).                  *)
(*   - the deposit-data tree builder (generate_validators_tree),           *)
(*   - the keystore listing with its password resolution                   *)
(*     (list_keystore_files).                                              *)
(* Spec is the approval round, SpecKS the keystore loader, SpecTree the    *)
(* tree builder and SpecList the keystore listing.                         *)
(***************************************************************************)
EXTENDS Integers, Sequences, FiniteSets, TLC

VARIABLES
    \* ---- the approval round -------------------------------------------
    endpoints,        \* oracles.endpoints: per oracle, its list of replica URLs
    threshold,        \* oracles.validators_threshold
    registry_root,    \* live value read by validators_registry_contract.get_registry_root()
    next_index,       \* live value of get_next_validator_index(latest public keys)
    now,              \* time elapsed since the round started, in ticks
    rpc,              \* position of send_approval_requests
    session,          \* the aiohttp ClientSession: "none", "open", "closed"
    sessions,         \* number of ClientSession objects created so far
    task,             \* per oracle: the frame of its send_approval_request_to_replicas task
    results,          \* what asyncio.gather returned
    approvals,        \* ordered dict address -> OracleApproval, as a sequence of pairs
    failed_endpoints, \* list of replica URLs of the failed oracles
    outcome,          \* what send_approval_requests returned or raised
    \* ---- the keystore loader ------------------------------------------
    files,            \* keystore_files: per unit, what decrypting it gives
    pool_size,        \* settings.pool_size
    mpc,              \* position of load_keystores (the coordinating thread)
    pool_state,       \* Pool._state: "RUN", "CLOSE", "TERMINATE"
    closed_by,        \* which thread called pool.close(), "none" if nobody did
    unit,             \* per unit: "new", "queued", "running", "finished", "ready", "killed"
    collected,        \* number of results the coordinator has consumed
    keystores,        \* the dict keystores, as a sequence of pairs
    ks_outcome,       \* what load_keystores returned or raised
    \* ---- the deposit-data tree ----------------------------------------
    vault,            \* the vault address
    deposit_data,     \* the list of deposit-data entries, as loaded from JSON
    tpc,              \* position of generate_validators_tree
    credentials,      \* the withdrawal credentials of the vault
    validators,       \* the list validators
    leaves,           \* the list leaves
    tree_outcome,     \* what generate_validators_tree returned or raised
    \* ---- the keystore listing -----------------------------------------
    keystores_dir,           \* listdir(keystores_dir): entries with name and kind
    keystores_password_dir,  \* the regular files of the password directory
    keystores_password_file, \* the default password file: <<>> or <<content>>
    lpc,              \* position of list_keystore_files
    li,               \* number of directory entries the loop has passed
    res,              \* the list res
    list_outcome      \* what list_keystore_files returned or raised

round_vars == <<endpoints, threshold, registry_root, next_index, now, rpc, session,
                sessions, task, results, approvals, failed_endpoints, outcome>>
ks_vars == <<files, pool_size, mpc, pool_state, closed_by, unit, collected, keystores,
             ks_outcome>>
tree_vars == <<vault, deposit_data, tpc, credentials, validators, leaves, tree_outcome>>
list_vars == <<keystores_dir, keystores_password_dir, keystores_password_file, lpc, li,
               res, list_outcome>>
vars == <<round_vars, ks_vars, tree_vars, list_vars>>

None == [type |-> "none"]

\* ------------------------------------------------------------------ bounds
NumOracles == 2
MaxReplicas == 2
MaxAttempts == 2
MaxTime == 2
MaxFiles == 3
MaxPool == 2
NumKeys == 2
MaxDeposits == 2
MaxEntries == 2

\* ORACLES_VALIDATORS_TIMEOUT (src/config/settings.py), the ClientTimeout of line
\* 50, in ticks: one tick of the model's clock is the length of the timeout
ORACLES_VALIDATORS_TIMEOUT == 1

Oracles == 1..NumOracles

\* oracles.addresses: the address of the i-th oracle (distinct identities)
Address(o) == <<"oracle", o>>
\* a replica URL of oracle o
Url(o, r) == <<"url", o, r>>

\* the ApprovalRequest serialized at line 47
payload == [validators_root |-> "root0", validator_index |-> 0]

Last(s) == s[Len(s)]

\* random.sample(replicas, len(replicas)): every permutation of the list
Perms(s) ==
    { p \in [1..Len(s) -> 1..Len(s)] : \A i, j \in 1..Len(s) : p[i] = p[j] => i = j }

Shuffles(s) == { [i \in 1..Len(s) |-> s[p[i]]] : p \in Perms(s) }

\* the replica lists an oracle may be configured with
ReplicaLists(o) == { [r \in 1..n |-> Url(o, r)] : n \in 0..MaxReplicas }

\* ---------------------------------------------------------------- values
\* an exception instance: its class and the replica whose request produced it
Exc(kind, endpoint) == [type |-> "error", kind |-> kind, endpoint |-> endpoint]

\* the OracleApproval built at lines 140-144 from the body a replica answered
OracleApproval(endpoint) == [type |-> "approval", endpoint |-> endpoint]

\* the frame of one oracle task before it is first scheduled:
\*   pc         "start", "post", "check_root", "check_index", "backoff", "done"
\*   order      replicas after random.sample, k the index of the one being tried
\*   last_error the local of that name; cur_error the exception e being classified
\*   log        one entry per request of this run of the loop, in order: the
\*              replica, what came back, and the live values read to classify it
\*              (<<>> while not read, <<v>> once v was read)
\*   nreq       number of POSTs issued over all runs of the loop
\*   attempts   runs of the replica loop started (the decorator re-runs it)
\*   age        ticks since the request in flight was issued
\*   result     None, the approval returned, or the exception the task ended with
\*   rank       0 while running, then the task's place in the order in which the
\*              tasks of the round ended
NewTask ==
    [pc |-> "start", order |-> <<>>, k |-> 0, last_error |-> None, cur_error |-> None,
     log |-> <<>>, nreq |-> 0, attempts |-> 0, age |-> 0, result |-> None, rank |-> 0]

\* the task ends: returns value v or raises it out of the decorator
Finish(t, v) == [t EXCEPT !.pc = "done", !.result = v]

\* the log entry of the request in flight is completed
Logged(t, field, v) == [t EXCEPT !.log[Len(t.log)][field] = v]

\* ------------------------------------------- send_approval_request_to_replicas
\* session.post(url=endpoint, json=payload) for the i-th replica of the shuffled
\* list: the request is in flight and the task is suspended on it
Post(t, i) ==
    [t EXCEPT !.pc = "post", !.k = i, !.nreq = @ + 1, !.age = 0, !.cur_error = None,
              !.log = Append(@, [endpoint |-> t.order[i], reply |-> "pending",
                                 root |-> <<>>, index |-> <<>>])]

\* lines 99-106 and 114: one run of the body with the shuffled list perm, up to
\* its first suspension; with no replica the loop is skipped, last_error is
\* None and RuntimeError is raised (not an aiohttp error: the decorator lets it out)
StartLoop(t, perm) ==
    LET u == [t EXCEPT !.attempts = @ + 1, !.order = perm, !.k = 0, !.last_error = None,
                       !.log = <<>>, !.cur_error = None]
    IN  IF perm = <<>> THEN Finish(u, Exc("RuntimeError", <<>>)) ELSE Post(u, 1)

\* a loop that keeps the first error instead of the last
SetLastErrorKeepFirst(last, e) == IF last = None THEN e ELSE last

\* line 109: last_error = e
SetLastError(last, e) == e

\* a loop that tries the failed replica again instead of the next one
CatchTransientSameReplica(t, e, retry) ==
    LET u == [t EXCEPT !.last_error = e, !.cur_error = None]
    IN  IF t.k < Len(t.order) THEN Post([u EXCEPT !.order[t.k + 1] = t.order[t.k]], t.k + 1)
        ELSE IF retry THEN [u EXCEPT !.pc = "backoff"]
        ELSE Finish(u, u.last_error)

\* lines 107-112 and the decorator of line 95, for the exception e that
\* send_approval_request re-raised at line 138: it is remembered, the loop goes on
\* to the next replica, and after the last one last_error is raised; the
\* decorator then either runs the body again after a pause (retry) or lets the
\* error out
CatchTransient(t, e, retry) ==
    LET u == [t EXCEPT !.last_error = SetLastError(t.last_error, e), !.cur_error = None]
    IN  IF t.k < Len(t.order) THEN Post(u, t.k + 1)
        ELSE IF retry THEN [u EXCEPT !.pc = "backoff"]
        ELSE Finish(u, u.last_error)

\* ------------------------------------------------------ send_approval_request
\* a loop that stores the approval and goes on to the next replica
OnApprovalKeepGoing(t) ==
    IF t.k < Len(t.order) THEN Post(t, t.k + 1)
    ELSE Finish(t, OracleApproval(t.order[t.k]))

\* lines 123-127 and 139-144: a 2xx answer whose body has the three fields; the
\* approval is returned through line 106 and the decorator
OnApproval(t) == Finish(t, OracleApproval(t.order[t.k]))

\* a body parsed inside the try with a handler wide enough to catch KeyError:
\* the missing field is classified like a transport error
OnMalformedCaught(t) ==
    [t EXCEPT !.pc = "check_root", !.cur_error = Exc("KeyError", t.order[t.k])]

\* lines 140-144: a 2xx answer whose body lacks a field raises KeyError, outside
\* the try of line 122; neither line 107 nor the decorator catches it
OnMalformed(t) == Finish(t, Exc("KeyError", t.order[t.k]))

\* line 128: ClientError (connection failure, non-2xx status raised at line 126)
\* or asyncio.TimeoutError enters the handler, which first awaits the registry root
OnTransportError(t, kind) ==
    [t EXCEPT !.pc = "check_root", !.cur_error = Exc(kind, t.order[t.k])]

\* line 130: the comparison of the live root with the payload's
RootChanged(root) == root # payload.validators_root

\* a stale root raised as an error that the loop's except clause catches
OnRegistryRootCaught(t, root) ==
    IF RootChanged(root)
    THEN CatchTransient(t, Exc("RegistryRootChangedError", t.order[t.k]), FALSE)
    ELSE [t EXCEPT !.pc = "check_index"]

\* lines 129-131: get_registry_root() has returned root
OnRegistryRoot(t, root) ==
    IF RootChanged(root)
    THEN Finish(t, Exc("RegistryRootChangedError", t.order[t.k]))
    ELSE [t EXCEPT !.pc = "check_index"]

\* line 135: the comparison of the live index with the payload's
IndexChanged(index) == index # payload.validator_index

\* a stale index raised as an error that the loop's except clause catches
OnValidatorIndexCaught(t, index, retry) ==
    IF IndexChanged(index)
    THEN CatchTransient(t, Exc("ValidatorIndexChangedError", t.order[t.k]), FALSE)
    ELSE CatchTransient(t, t.cur_error, retry)

\* lines 133-138: the public keys have been fetched and the next index derived
OnValidatorIndex(t, index, retry) ==
    IF IndexChanged(index)
    THEN Finish(t, Exc("ValidatorIndexChangedError", t.order[t.k]))
    ELSE CatchTransient(t, t.cur_error, retry)

\* ------------------------------------------------------ send_approval_requests
\* approvals[address] = result on a dict that keeps insertion order
DictSet(d, key, v) ==
    IF \E i \in 1..Len(d) : d[i].key = key
    THEN [i \in 1..Len(d) |-> IF d[i].key = key THEN [key |-> key, value |-> v] ELSE d[i]]
    ELSE Append(d, [key |-> key, value |-> v])

\* line 65: isinstance(result, Exception)
IsException(r) == r.type = "error"

\* a loop without the isinstance test: every result is stored as an approval
CollectStepNoTest(acc, address, replicas, r) ==
    [acc EXCEPT !.approvals = DictSet(@, address, r)]

\* a loop without the continue of line 73: a failed oracle's exception is also
\* stored as its approval
CollectStepNoContinue(acc, address, replicas, r) ==
    IF IsException(r)
    THEN [acc EXCEPT !.failed_endpoints = @ \o replicas,
                     !.approvals = DictSet(@, address, r)]
    ELSE [acc EXCEPT !.approvals = DictSet(@, address, r)]

\* lines 65-75: one iteration of the loop over zip(addresses, endpoints, results)
CollectStep(acc, address, replicas, r) ==
    IF IsException(r)
    THEN [acc EXCEPT !.failed_endpoints = @ \o replicas]
    ELSE [acc EXCEPT !.approvals = DictSet(@, address, r)]

\* lines 61-75: the loop over the first n oracles
RECURSIVE Collect(_, _, _)
Collect(eps, rs, n) ==
    IF n = 0 THEN [approvals |-> <<>>, failed_endpoints |-> <<>>]
    ELSE CollectStep(Collect(eps, rs, n - 1), Address(n), eps[n], rs[n])

\* process_oracles_approvals (src/common/utils.py, not part of this file):
\* the threshold rule of the combination function
ProcessOraclesApprovals(apps, votes_threshold) ==
    IF Len(apps) >= votes_threshold
    THEN [type |-> "OraclesApproval", approvals |-> apps]
    ELSE Exc("InsufficientThreshold", <<>>)

\* gather without return_exceptions: the first exception stands for the batch
GatherFirstException(ts) ==
    IF \E o \in Oracles : IsException(ts[o].result)
    THEN LET f == CHOOSE o \in Oracles :
                      /\ IsException(ts[o].result)
                      /\ \A q \in Oracles : IsException(ts[q].result) => o <= q
         IN  [o \in Oracles |-> ts[f].result]
    ELSE [o \in Oracles |-> ts[o].result]

\* results handed back in the order in which the tasks ended
GatherInCompletionOrder(ts) ==
    [i \in Oracles |-> ts[CHOOSE o \in Oracles : ts[o].rank = i].result]

\* what asyncio.gather(..., return_exceptions=True) hands back once every task
\* has ended: each task's value or exception, in the order of the argument list
GatherResults(ts) == [o \in Oracles |-> ts[o].result]

\* ------------------------------------------------------------------ actions
\* a wait that returns as soon as one task has ended
AnyDone == \E o \in Oracles : task[o].pc = "done"

\* await asyncio.gather(...), lines 51-59: every task has ended
AllDone == \A o \in Oracles : task[o].pc = "done"

\* the tasks that have ended
Ended(ts) == { q \in Oracles : ts[q].pc = "done" }

\* task o goes on to frame t; a task that ends takes the next place in the
\* order of completion
SetTask(o, t) ==
    task' = [task EXCEPT ![o] = IF t.pc = "done"
                                 THEN [t EXCEPT !.rank = Cardinality(Ended(task)) + 1]
                                 ELSE t]

RoundFrame == UNCHANGED <<endpoints, threshold, rpc, session, sessions, results,
                          approvals, failed_endpoints, outcome, ks_vars, tree_vars, list_vars>>

\* lines 47-59: the session is created, gather wraps one coroutine per oracle in
\* a task, and the event loop runs each task up to its first suspension: the
\* shuffle of line 102 and the first POST
StartRound ==
    /\ rpc = "init"
    /\ rpc' = "gather"
    /\ session' = "open"
    /\ sessions' = sessions + 1
    /\ \E perms \in [Oracles -> UNION { Shuffles(endpoints[o]) : o \in Oracles }] :
          /\ \A o \in Oracles : perms[o] \in Shuffles(endpoints[o])
          /\ LET ts == [o \in Oracles |-> StartLoop(task[o], perms[o])]
             IN  task' = [o \in Oracles |->
                            IF ts[o].pc = "done"
                            THEN [ts[o] EXCEPT !.rank =
                                      Cardinality({ q \in Ended(ts) : q <= o })]
                            ELSE ts[o]]
    /\ UNCHANGED <<endpoints, threshold, registry_root, next_index, now, results,
                   approvals, failed_endpoints, outcome, ks_vars, tree_vars, list_vars>>

\* the decorator's pause is over: the body runs again, with a new shuffle
Retry(o) ==
    /\ rpc = "gather"
    /\ task[o].pc = "backoff"
    /\ \E perm \in Shuffles(endpoints[o]) : SetTask(o, StartLoop(task[o], perm))
    /\ UNCHANGED <<registry_root, next_index, now>>
    /\ RoundFrame

\* the replica answers 2xx with a well-formed body before the timeout
RespondApproval(o) ==
    /\ task[o].pc = "post"
    /\ task[o].age < ORACLES_VALIDATORS_TIMEOUT
    /\ SetTask(o, OnApproval(Logged(task[o], "reply", "approval")))
    /\ UNCHANGED <<registry_root, next_index, now>>
    /\ RoundFrame

\* the replica answers 2xx with a body that lacks a field
RespondMalformed(o) ==
    /\ task[o].pc = "post"
    /\ task[o].age < ORACLES_VALIDATORS_TIMEOUT
    /\ SetTask(o, OnMalformed(Logged(task[o], "reply", "malformed")))
    /\ UNCHANGED <<registry_root, next_index, now>>
    /\ RoundFrame

\* the connection fails or the replica answers with an error status
RespondClientError(o) ==
    /\ task[o].pc = "post"
    /\ task[o].age < ORACLES_VALIDATORS_TIMEOUT
    /\ SetTask(o, OnTransportError(Logged(task[o], "reply", "ClientError"), "ClientError"))
    /\ UNCHANGED <<registry_root, next_index, now>>
    /\ RoundFrame

\* ClientTimeout(ORACLES_VALIDATORS_TIMEOUT) of line 50: the request has been
\* pending for the whole timeout
RequestTimeout(o) ==
    /\ task[o].pc = "post"
    /\ task[o].age = ORACLES_VALIDATORS_TIMEOUT
    /\ SetTask(o, OnTransportError(Logged(task[o], "reply", "TimeoutError"), "TimeoutError"))
    /\ UNCHANGED <<registry_root, next_index, now>>
    /\ RoundFrame

\* line 129 completes
ReadRegistryRoot(o) ==
    /\ task[o].pc = "check_root"
    /\ SetTask(o, OnRegistryRoot(Logged(task[o], "root", <<registry_root>>), registry_root))
    /\ UNCHANGED <<registry_root, next_index, now>>
    /\ RoundFrame

\* lines 133-134 complete
ReadValidatorIndex(o) ==
    /\ task[o].pc = "check_index"
    /\ \E retry \in BOOLEAN :
          /\ retry => task[o].attempts < MaxAttempts
          /\ SetTask(o, OnValidatorIndex(Logged(task[o], "index", <<next_index>>),
                                         next_index, retry))
    /\ UNCHANGED <<registry_root, next_index, now>>
    /\ RoundFrame

\* time passes; a request is never pending for longer than the timeout
Tick ==
    /\ rpc = "gather"
    /\ now < MaxTime
    /\ \A o \in Oracles : task[o].pc = "post" => task[o].age < ORACLES_VALIDATORS_TIMEOUT
    /\ now' = now + 1
    /\ task' = [o \in Oracles |->
                  IF task[o].pc = "post" THEN [task[o] EXCEPT !.age = @ + 1] ELSE task[o]]
    /\ UNCHANGED <<registry_root, next_index>>
    /\ RoundFrame

\* another operator registers validators: the registry root changes on chain
RegistryRootChange ==
    /\ rpc = "gather"
    /\ registry_root = payload.validators_root
    /\ registry_root' = "root1"
    /\ UNCHANGED <<next_index, now, task>>
    /\ RoundFrame

\* new validators are registered in the network: the next index moves on
ValidatorIndexChange ==
    /\ rpc = "gather"
    /\ next_index = payload.validator_index
    /\ next_index' = next_index + 1
    /\ UNCHANGED <<registry_root, now, task>>
    /\ RoundFrame

\* a session created without the async with block: nothing closes it
GatherReturnKeepSession ==
    /\ rpc = "gather"
    /\ AllDone
    /\ results' = GatherResults(task)
    /\ rpc' = "collect"
    /\ UNCHANGED <<endpoints, threshold, registry_root, next_index, now, session, sessions,
                   task, approvals, failed_endpoints, outcome, ks_vars, tree_vars, list_vars>>

\* lines 51-59: every task has ended, gather returns and the session is closed
GatherReturn ==
    /\ rpc = "gather"
    /\ AllDone
    /\ results' = GatherResults(task)
    /\ session' = "closed"
    /\ rpc' = "collect"
    /\ UNCHANGED <<endpoints, threshold, registry_root, next_index, now, sessions, task,
                   approvals, failed_endpoints, outcome, ks_vars, tree_vars, list_vars>>

\* lines 61-91: the collection loop, the log lines and the combination function
Aggregate ==
    /\ rpc = "collect"
    /\ LET acc == Collect(endpoints, results, NumOracles)
       IN  /\ approvals' = acc.approvals
           /\ failed_endpoints' = acc.failed_endpoints
           /\ outcome' = ProcessOraclesApprovals(acc.approvals, threshold)
    /\ rpc' = "done"
    /\ UNCHANGED <<endpoints, threshold, registry_root, next_index, now, session,
                   sessions, task, results, ks_vars, tree_vars, list_vars>>

RoundInit ==
    /\ endpoints \in { e \in [Oracles -> UNION { ReplicaLists(o) : o \in Oracles }] :
                        \A o \in Oracles : e[o] \in ReplicaLists(o) }
    /\ threshold \in 1..NumOracles
    /\ registry_root = payload.validators_root
    /\ next_index = payload.validator_index
    /\ now = 0
    /\ rpc = "init"
    /\ session = "none"
    /\ sessions = 0
    /\ task = [o \in Oracles |-> NewTask]
    /\ results = <<>>
    /\ approvals = <<>>
    /\ failed_endpoints = <<>>
    /\ outcome = None

KsIdle ==
    /\ files = <<>>
    /\ pool_size = 0
    /\ mpc = "idle"
    /\ pool_state = "none"
    /\ closed_by = "none"
    /\ unit = <<>>
    /\ collected = 0
    /\ keystores = <<>>
    /\ ks_outcome = None

TreeIdle ==
    /\ vault = ""
    /\ deposit_data = <<>>
    /\ tpc = "idle"
    /\ credentials = <<>>
    /\ validators = <<>>
    /\ leaves = <<>>
    /\ tree_outcome = None

ListIdle ==
    /\ keystores_dir = <<>>
    /\ keystores_password_dir = {}
    /\ keystores_password_file = <<>>
    /\ lpc = "idle"
    /\ li = 0
    /\ res = <<>>
    /\ list_outcome = None


\* ---------------------------------------------------------- the keystore loader
\* what a keystore file holds: a private key under the resolved password, a
\* container that does not parse, or a container the password does not open
KeystoreFiles ==
    { [kind |-> "ok", key |-> x] : x \in 1..NumKeys }
        \cup { [kind |-> "bad_format", key |-> 0], [kind |-> "bad_password", key |-> 0] }

\* an exception raised in the loader: its class and its message
Raised(kind, message) == [type |-> "error", kind |-> kind, message |-> message]

\* bls.SkToPk then Web3.to_hex, line 243: a function of the private key alone
SkToPk(private_key) == <<"pk", private_key>>

\* lines 227-244: the unit run by a worker process
ProcessKeystoreFile(f) ==
    IF f.kind = "bad_format" THEN Raised("KeystoreException", "Invalid keystore format")
    ELSE IF f.kind = "bad_password" THEN Raised("KeystoreException", "Invalid password")
    ELSE [type |-> "keys", public_key |-> SkToPk(f.key), private_key |-> f.key]

Units == 1..Len(files)

\* the units apply_async has accepted so far (they are dispatched in list order)
Dispatched == { u \in Units : unit[u] # "new" }

AllDispatched == Dispatched = Units

\* Pool.terminate(), called by the with block's exit: worker processes are
\* killed, so a unit waiting in the task queue or running never completes
Terminated(us) ==
    [u \in DOMAIN us |-> IF us[u] \in {"queued", "running"} THEN "killed" ELSE us[u]]

\* Pool.close(): no new task is accepted; tasks already accepted still run
ClosePool(state) == IF state = "RUN" THEN "CLOSE" ELSE state

\* lines 174-175: the error callback, run by the thread that calls it
StopPool(state) == ClosePool(state)

\* Pool.apply_async checks that the pool is running before it accepts a task
PoolAccepts(state) == state = "RUN"

\* lines 190-192: the exception a failed unit's result.get() raises, as it
\* leaves load_keystores
CollectError(e) ==
    IF e.kind = "KeystoreException" THEN Raised("RuntimeError", "Failed to load keystores")
    ELSE e

KsFrame == UNCHANGED <<files, pool_size, round_vars, tree_vars, list_vars>>

\* lines 169-172: the files are listed and the pool is created
LoadStart ==
    /\ mpc = "start"
    /\ mpc' = "pool"
    /\ pool_state' = "RUN"
    /\ UNCHANGED <<closed_by, unit, collected, keystores, ks_outcome>>
    /\ KsFrame

\* lines 177-184, one element of the list comprehension: apply_async for the
\* next file; on a pool that is no longer running it raises ValueError, which
\* leaves the with block (terminating the pool) and load_keystores
Dispatch ==
    /\ mpc = "pool"
    /\ ~AllDispatched
    /\ LET u == Cardinality(Dispatched) + 1
       IN  IF PoolAccepts(pool_state)
           THEN /\ unit' = [unit EXCEPT ![u] = "queued"]
                /\ UNCHANGED <<mpc, pool_state, ks_outcome>>
           ELSE /\ unit' = Terminated(unit)
                /\ pool_state' = "TERMINATE"
                /\ mpc' = "done"
                /\ ks_outcome' = Raised("ValueError", "Pool not running")
    /\ UNCHANGED <<closed_by, collected, keystores>>
    /\ KsFrame

\* a free worker process takes the oldest queued unit
WorkerTake(u) ==
    /\ pool_state \in {"RUN", "CLOSE"}
    /\ u \in Units
    /\ unit[u] = "queued"
    /\ \A v \in Units : v < u => unit[v] # "queued"
    /\ Cardinality({ v \in Units : unit[v] = "running" }) < pool_size
    /\ unit' = [unit EXCEPT ![u] = "running"]
    /\ UNCHANGED <<mpc, pool_state, closed_by, collected, keystores, ks_outcome>>
    /\ KsFrame

\* the worker has run _process_keystore_file to its end and queued the outcome
WorkerFinish(u) ==
    /\ pool_state \in {"RUN", "CLOSE"}
    /\ u \in Units
    /\ unit[u] = "running"
    /\ unit' = [unit EXCEPT ![u] = "finished"]
    /\ UNCHANGED <<mpc, pool_state, closed_by, collected, keystores, ks_outcome>>
    /\ KsFrame

\* the pool's result-handler thread takes an outcome: for a failed unit it
\* calls error_callback (_stop_pool) and then marks the result ready
HandleResult(u) ==
    /\ pool_state \in {"RUN", "CLOSE"}
    /\ u \in Units
    /\ unit[u] = "finished"
    /\ unit' = [unit EXCEPT ![u] = "ready"]
    /\ IF IsException(ProcessKeystoreFile(files[u]))
       THEN /\ pool_state' = StopPool(pool_state)
            /\ closed_by' = IF pool_state = "RUN" THEN "result_handler" ELSE closed_by
       ELSE UNCHANGED <<pool_state, closed_by>>
    /\ UNCHANGED <<mpc, collected, keystores, ks_outcome>>
    /\ KsFrame

\* a collection loop whose except clause logs the error and goes on
CollectResultSwallow ==
    /\ mpc = "pool"
    /\ AllDispatched
    /\ collected < Len(files)
    /\ unit[collected + 1] = "ready"
    /\ LET r == ProcessKeystoreFile(files[collected + 1])
       IN  IF IsException(r)
           THEN UNCHANGED keystores
           ELSE keystores' = DictSet(keystores, r.public_key, r.private_key)
    /\ collected' = collected + 1
    /\ UNCHANGED <<mpc, pool_state, unit, ks_outcome, closed_by>>
    /\ KsFrame

\* lines 185-192: result.wait() returns for the next result and result.get()
\* either gives the key pair, stored at line 189, or raises
CollectResult ==
    /\ mpc = "pool"
    /\ AllDispatched
    /\ collected < Len(files)
    /\ unit[collected + 1] = "ready"
    /\ LET r == ProcessKeystoreFile(files[collected + 1])
       IN  IF IsException(r)
           THEN /\ ks_outcome' = CollectError(r)
                /\ mpc' = "done"
                /\ pool_state' = "TERMINATE"
                /\ unit' = Terminated(unit)
                /\ UNCHANGED <<collected, keystores>>
           ELSE /\ keystores' = DictSet(keystores, r.public_key, r.private_key)
                /\ collected' = collected + 1
                /\ UNCHANGED <<mpc, pool_state, unit, ks_outcome>>
    /\ UNCHANGED closed_by
    /\ KsFrame

\* lines 194-195: every result was collected; the with block ends and the
\* mapping is returned
LoadReturn ==
    /\ mpc = "pool"
    /\ AllDispatched
    /\ collected = Len(files)
    /\ mpc' = "done"
    /\ pool_state' = "TERMINATE"
    /\ unit' = Terminated(unit)
    /\ ks_outcome' = [type |-> "Keystores", keystores |-> keystores]
    /\ UNCHANGED <<closed_by, collected, keystores>>
    /\ KsFrame

KsInit ==
    /\ files \in UNION { [1..n -> KeystoreFiles] : n \in 0..MaxFiles }
    /\ pool_size \in 1..MaxPool
    /\ mpc = "start"
    /\ pool_state = "none"
    /\ closed_by = "none"
    /\ unit = [u \in 1..Len(files) |-> "new"]
    /\ collected = 0
    /\ keystores = <<>>
    /\ ks_outcome = None

RoundIdle ==
    /\ endpoints = <<>>
    /\ threshold = 0
    /\ registry_root = payload.validators_root
    /\ next_index = payload.validator_index
    /\ now = 0
    /\ rpc = "idle"
    /\ session = "none"
    /\ sessions = 0
    /\ task = <<>>
    /\ results = <<>>
    /\ approvals = <<>>
    /\ failed_endpoints = <<>>
    /\ outcome = None

InitKS == KsInit /\ RoundIdle /\ TreeIdle /\ ListIdle

NextKS ==
    \/ LoadStart
    \/ Dispatch
    \/ \E u \in 1..MaxFiles : WorkerTake(u)
    \/ \E u \in 1..MaxFiles : WorkerFinish(u)
    \/ \E u \in 1..MaxFiles : HandleResult(u)
    \/ CollectResult
    \/ LoadReturn

SpecKS == InitKS /\ [][NextKS]_vars

Init == RoundInit /\ KsIdle /\ TreeIdle /\ ListIdle

Next ==
    \/ StartRound
    \/ \E o \in Oracles : Retry(o)
    \/ \E o \in Oracles : RespondApproval(o)
    \/ \E o \in Oracles : RespondMalformed(o)
    \/ \E o \in Oracles : RespondClientError(o)
    \/ \E o \in Oracles : RequestTimeout(o)
    \/ \E o \in Oracles : ReadRegistryRoot(o)
    \/ \E o \in Oracles : ReadValidatorIndex(o)
    \/ Tick
    \/ RegistryRootChange
    \/ ValidatorIndexChange
    \/ GatherReturn
    \/ Aggregate

Spec == Init /\ [][Next]_vars

\* ------------------------------------------------- generate_validators_tree
\* a hex string of a deposit-data file: with or without the 0x prefix
HexStrings(digits) == [prefixed : BOOLEAN, hex : digits]

\* a deposit-data entry is a JSON object: a list of (key, value) pairs in the
\* order of the file; the last kind lacks the signature
DepositEntries ==
    LET pubkeys == HexStrings({"a1", "b2"})
        signatures == HexStrings({"c3"})
    IN  { <<<<"pubkey", p>>, <<"signature", g>>>> : p \in pubkeys, g \in signatures }
            \cup { <<<<"signature", g>>, <<"pubkey", p>>>> : p \in pubkeys, g \in signatures }
            \cup { <<<<"pubkey", p>>>> : p \in pubkeys }

Vaults == {"vaultA", "vaultB"}

\* data[key] of lines 217-218: the lookup is by key, whatever the position
HasKey(data, key) == \E j \in 1..Len(data) : data[j][1] = key

GetItem(data, key) == data[CHOOSE j \in 1..Len(data) : data[j][1] = key][2]

\* eth_utils.add_0x_prefix: the prefix is added unless it is there
add_0x_prefix(value) == [value EXCEPT !.prefixed = TRUE]

\* sw_utils.get_eth1_withdrawal_credentials, line 211: a function of the vault
get_eth1_withdrawal_credentials(v) == <<"0x01", v>>

\* a validator numbered from one
ValidatorOneBased(i, data) ==
    [deposit_data_index |-> i + 1,
     public_key |-> add_0x_prefix(GetItem(data, "pubkey")),
     signature |-> add_0x_prefix(GetItem(data, "signature"))]

\* lines 215-219: the Validator built for the entry at 0-based position i
Validator(i, data) ==
    [deposit_data_index |-> i,
     public_key |-> add_0x_prefix(GetItem(data, "pubkey")),
     signature |-> add_0x_prefix(GetItem(data, "signature"))]

\* encode_tx_validator (src/validators/signing/common.py, not part of this
\* file): the leaf encoding, a function of the credentials, the public key
\* and the signature
encode_tx_validator(creds, validator) ==
    <<"tx_validator", creds, validator.public_key, validator.signature>>

\* multiproof's StandardMerkleTree.of, line 223: the tree over the leaf values
\* under the declared leaf encoding
StandardMerkleTreeOf(values, leaf_encoding) ==
    [values |-> values, leaf_encoding |-> leaf_encoding]

\* the key whose lookup raises KeyError at lines 217-218, "" when both are there
MissingKey(data) ==
    IF ~HasKey(data, "pubkey") THEN "pubkey"
    ELSE IF ~HasKey(data, "signature") THEN "signature"
    ELSE ""

TreeFrame == UNCHANGED <<vault, deposit_data, round_vars, ks_vars, list_vars>>

\* lines 211-213: the credentials are computed, the lists are empty
TreeStart ==
    /\ tpc = "start"
    /\ tpc' = "loop"
    /\ credentials' = get_eth1_withdrawal_credentials(vault)
    /\ UNCHANGED <<validators, leaves, tree_outcome>>
    /\ TreeFrame

\* lines 214-221: one iteration of the loop over enumerate(deposit_data)
TreeStep ==
    /\ tpc = "loop"
    /\ Len(validators) < Len(deposit_data)
    /\ LET i == Len(validators)
           data == deposit_data[i + 1]
       IN  IF MissingKey(data) # ""
           THEN /\ tree_outcome' = Raised("KeyError", MissingKey(data))
                /\ tpc' = "done"
                /\ UNCHANGED <<validators, leaves>>
           ELSE /\ leaves' = Append(leaves,
                                    <<encode_tx_validator(credentials, Validator(i, data)), i>>)
                /\ validators' = Append(validators, Validator(i, data))
                /\ UNCHANGED <<tpc, tree_outcome>>
    /\ UNCHANGED credentials
    /\ TreeFrame

\* lines 223-224: the tree is built over the leaves and returned with the list
TreeReturn ==
    /\ tpc = "loop"
    /\ Len(validators) = Len(deposit_data)
    /\ tpc' = "done"
    /\ tree_outcome' = [type |-> "DepositData",
                        tree |-> StandardMerkleTreeOf(leaves, <<"bytes", "uint256">>),
                        validators |-> validators]
    /\ UNCHANGED <<credentials, validators, leaves>>
    /\ TreeFrame

TreeInit ==
    /\ vault \in Vaults
    /\ deposit_data \in UNION { [1..n -> DepositEntries] : n \in 0..MaxDeposits }
    /\ tpc = "start"
    /\ credentials = <<>>
    /\ validators = <<>>
    /\ leaves = <<>>
    /\ tree_outcome = None

InitTree == TreeInit /\ RoundIdle /\ KsIdle /\ ListIdle

NextTree ==
    \/ TreeStart
    \/ TreeStep
    \/ TreeReturn

SpecTree == InitTree /\ [][NextTree]_vars


\* ------------------------------------------------------ list_keystore_files
\* a file name is the sequence of its pieces; the pieces are chosen so that
\* '.json' occurs in a name only as a whole piece
DirNames ==
    { <<"keystore", "-1", ".json">>,
      <<"keystore", ".json", ".bak", ".json">>,
      <<"deposit", ".json">>,
      <<"keystore", "-1", ".txt">> }

\* the names regular files of the password directory may have
PasswordNames ==
    { <<"keystore", "-1", ".txt">>,
      <<"keystore", ".json", ".bak", ".txt">>,
      <<"keystore", ".txt", ".bak", ".txt">> }

\* what listdir can give: up to MaxEntries entries with different names, each
\* a regular file or not
DirListings ==
    { d \in UNION { [1..n -> [name : DirNames, isfile : BOOLEAN]] : n \in 0..MaxEntries } :
          \A a, b \in 1..Len(d) : a # b => d[a].name # d[b].name }

\* a text: what it says and whether whitespace surrounds it
Text(text, padded) == [type |-> "str", text |-> text, padded |-> padded]

\* the text of the password file with that name, as written: with a newline
Content(name) == Text(name, TRUE)

\* str.startswith, str.endswith and str.replace of line 154 and line 157;
\* replace substitutes every occurrence
startswith(f, prefix) == f # <<>> /\ f[1] = prefix

endswith(f, suffix) == f # <<>> /\ f[Len(f)] = suffix

replace(f, old, new) == [j \in 1..Len(f) |-> IF f[j] = old THEN new ELSE f[j]]

\* str.strip of line 249
Strip(content) == [content EXCEPT !.padded = FALSE]

\* lines 247-249: open raises when the file is not there
LoadKeystoresPassword(password_file) ==
    IF password_file = <<>> THEN Raised("FileNotFoundError", "keystores_password_file")
    ELSE Strip(password_file[1])

\* line 154: the entries the loop does not skip
IsKeystore(entry) ==
    /\ entry.isfile
    /\ startswith(entry.name, "keystore")
    /\ endswith(entry.name, ".json")

\* lines 157-159: the password file used for the keystore named f
PasswordFile(f) ==
    LET password_file == replace(f, ".json", ".txt")
    IN  IF password_file \in keystores_password_dir
        THEN <<Content(password_file)>>
        ELSE keystores_password_file

ListFrame == UNCHANGED <<keystores_dir, keystores_password_dir, keystores_password_file,
                         round_vars, ks_vars, tree_vars>>

\* lines 148-152: the settings are read and res is empty
ListStart ==
    /\ lpc = "start"
    /\ lpc' = "loop"
    /\ UNCHANGED <<li, res, list_outcome>>
    /\ ListFrame

\* lines 153-155: the next entry is not a keystore file and is skipped
ListSkip ==
    /\ lpc = "loop"
    /\ li < Len(keystores_dir)
    /\ ~IsKeystore(keystores_dir[li + 1])
    /\ li' = li + 1
    /\ UNCHANGED <<lpc, res, list_outcome>>
    /\ ListFrame

\* lines 157-162: the password of the next keystore file is resolved and read
ListResolve ==
    /\ lpc = "loop"
    /\ li < Len(keystores_dir)
    /\ IsKeystore(keystores_dir[li + 1])
    /\ LET f == keystores_dir[li + 1].name
           password == LoadKeystoresPassword(PasswordFile(f))
       IN  IF IsException(password)
           THEN /\ list_outcome' = password
                /\ lpc' = "done"
                /\ UNCHANGED <<li, res>>
           ELSE /\ res' = Append(res, [name |-> f, password |-> password])
                /\ li' = li + 1
                /\ UNCHANGED <<lpc, list_outcome>>
    /\ ListFrame

\* line 164
ListReturn ==
    /\ lpc = "loop"
    /\ li = Len(keystores_dir)
    /\ lpc' = "done"
    /\ list_outcome' = [type |-> "KeystoreFiles", files |-> res]
    /\ UNCHANGED <<li, res>>
    /\ ListFrame

ListInit ==
    /\ keystores_dir \in DirListings
    /\ keystores_password_dir \in SUBSET PasswordNames
    /\ keystores_password_file
           \in {<<>>} \cup { <<Text(<<"default">>, b)>> : b \in BOOLEAN }
    /\ lpc = "start"
    /\ li = 0
    /\ res = <<>>
    /\ list_outcome = None

InitList == ListInit /\ RoundIdle /\ KsIdle /\ TreeIdle

NextList ==
    \/ ListStart
    \/ ListSkip
    \/ ListResolve
    \/ ListReturn

SpecList == InitList /\ [][NextList]_vars


\* ------------------------------------------------- properties of the round
TransportErrors == {"ClientError", "TimeoutError"}

StaleErrors == {"RegistryRootChangedError", "ValidatorIndexChangedError"}

\* the replicas one run of the loop has requested
Requested(t) == { t.log[i].endpoint : i \in 1..Len(t.log) }

\* the oracles whose task returned an approval
Approved == { o \in Oracles : task[o].result.type = "approval" }

HasApproval(apps, address, v) ==
    \E i \in 1..Len(apps) : apps[i] = [key |-> address, value |-> v]

\* C1: once a request to a replica has been answered with a well-formed
\* approval, the oracle's task has ended with exactly that approval, the answer
\* is the last request of the task, and no replica later in the shuffled order
\* has been requested.
C1_FirstSuccessStopsLoop ==
    \A o \in Oracles : \A i \in 1..Len(task[o].log) :
        task[o].log[i].reply = "approval" =>
            /\ i = Len(task[o].log)
            /\ task[o].pc = "done"
            /\ task[o].log[i].endpoint = task[o].order[i]
            /\ task[o].result = OracleApproval(task[o].order[i])
            /\ \A j \in (i + 1)..Len(task[o].order) :
                   task[o].order[j] \notin Requested(task[o])

\* C1 witness: a finished round in which the first replica of the shuffled order
\* answered and a later replica was left alone
C1_Witness ==
    /\ rpc = "done"
    /\ \E o \in Oracles :
          /\ Len(task[o].order) = 2
          /\ Len(task[o].log) = 1
          /\ task[o].log[1].reply = "approval"

\* C2: when a replica call failed with a network error or a timeout and the
\* registry root read for it differs from the payload's validators_root, the
\* task has ended with RegistryRootChangedError and that request is the last
\* one of the task: no other replica is requested and the loop is not retried.
C2_RootChangeAborts ==
    \A o \in Oracles : \A i \in 1..Len(task[o].log) :
        ( /\ task[o].log[i].reply \in TransportErrors
          /\ task[o].log[i].root \notin {<<>>, <<payload.validators_root>>} )
        => /\ i = Len(task[o].log)
           /\ task[o].pc = "done"
           /\ task[o].result = Exc("RegistryRootChangedError", task[o].log[i].endpoint)

\* C2 witness: a task that ended with RegistryRootChangedError on its first
\* replica although a second was configured
C2_Witness ==
    /\ rpc = "done"
    /\ \E o \in Oracles :
          /\ task[o].result.type = "error"
          /\ task[o].result.kind = "RegistryRootChangedError"
          /\ Len(task[o].order) = 2
          /\ task[o].nreq = 1

\* C3: the index is read only for a failed call whose root check completed and
\* matched; when the index read then differs from the payload's
\* validator_index, the task has ended with ValidatorIndexChangedError and that
\* request is the last one of the task.
C3_IndexChangeAborts ==
    \A o \in Oracles : \A i \in 1..Len(task[o].log) :
        /\ task[o].log[i].index # <<>> =>
               /\ task[o].log[i].reply \in TransportErrors
               /\ task[o].log[i].root = <<payload.validators_root>>
        /\ ( /\ task[o].log[i].reply \in TransportErrors
             /\ task[o].log[i].root = <<payload.validators_root>>
             /\ task[o].log[i].index \notin {<<>>, <<payload.validator_index>>} )
           => /\ i = Len(task[o].log)
              /\ task[o].pc = "done"
              /\ task[o].result
                     = Exc("ValidatorIndexChangedError", task[o].log[i].endpoint)

\* C3 witness: a task that ended with ValidatorIndexChangedError on its first
\* replica, after a matching root, although a second replica was configured
C3_Witness ==
    /\ rpc = "done"
    /\ \E o \in Oracles :
          /\ task[o].result.type = "error"
          /\ task[o].result.kind = "ValidatorIndexChangedError"
          /\ task[o].log[1].root = <<payload.validators_root>>
          /\ Len(task[o].order) = 2
          /\ task[o].nreq = 1

\* C4: whatever way oracle A's task fails, gather hands back oracle B's own
\* outcome, and an approval returned by B's task is in the mapping given to the
\* combination function under B's address.
C4_FaultIsolation ==
    /\ rpc \in {"collect", "done"} =>
           \A b \in Oracles : results[b] = task[b].result
    /\ rpc = "done" =>
           \A b \in Oracles :
               task[b].result.type = "approval" =>
                   HasApproval(approvals, Address(b), task[b].result)

\* C4 witness: a finished round where the first oracle's task ended with a
\* stale-round error while the second was still running, and the second
\* oracle's later approval is in the mapping
C4_Witness ==
    /\ rpc = "done"
    /\ task[1].result.type = "error"
    /\ task[1].result.kind \in StaleErrors
    /\ task[2].result.type = "approval"
    /\ Len(task[2].log) = 2
    /\ HasApproval(approvals, Address(2), task[2].result)

\* C5: the round returns an OraclesApproval exactly when the number of oracles
\* whose task returned an approval is at least the threshold.
C5_ThresholdBoundary ==
    rpc = "done" =>
        /\ Len(approvals) = Cardinality(Approved)
        /\ outcome.type = "OraclesApproval" <=> Cardinality(Approved) >= threshold

\* C5 witness: exactly threshold approvals, one oracle failed, the round succeeds
C5_Witness ==
    /\ rpc = "done"
    /\ Cardinality(Approved) = threshold
    /\ Cardinality(Approved) < NumOracles
    /\ outcome.type = "OraclesApproval"

\* C6: a round in which some oracle task ended with a stale-round error does not
\* return an OraclesApproval built from the other oracles' approvals.
C6_StaleRoundSignalled ==
    rpc = "done" =>
        ( (\E o \in Oracles : /\ task[o].result.type = "error"
                              /\ task[o].result.kind \in StaleErrors)
          => outcome.type # "OraclesApproval" )

\* C7 as stated: once the shared budget has expired, a task still pending issues
\* no further request and contributes no approval.
C7_SharedBudget ==
    [][ (rpc = "gather" /\ now >= ORACLES_VALIDATORS_TIMEOUT) =>
            \A o \in Oracles :
                /\ task'[o].nreq = task[o].nreq
                /\ task'[o].result.type = "approval" => task[o].result.type = "approval"
      ]_vars

\* C7 amended: the timeout bounds each request separately: no request is
\* pending for longer than the timeout, a timed-out request is classified like
\* any transport error before the task moves on, aggregation starts only when
\* every task has ended, and a failed task contributes no approval without
\* failing the round by itself.
C7_PerRequestTimeout ==
    /\ \A o \in Oracles :
          /\ task[o].pc = "post" => task[o].age <= ORACLES_VALIDATORS_TIMEOUT
          /\ \A i \in 1..Len(task[o].log) :
                 (task[o].log[i].reply = "TimeoutError" /\ i < Len(task[o].log))
                 => /\ task[o].log[i].root = <<payload.validators_root>>
                    /\ task[o].log[i].index = <<payload.validator_index>>
    /\ rpc \in {"collect", "done"} => \A o \in Oracles : task[o].pc = "done"
    /\ rpc = "done" =>
          /\ \A o \in Oracles :
                 task[o].result.type = "error" =>
                     \A i \in 1..Len(approvals) : approvals[i].key # Address(o)
          /\ Len(approvals) >= threshold => outcome.type = "OraclesApproval"

\* C7 witness: a task whose first request timed out when the budget of the round
\* had run out went on to its second replica and its approval made the round
C7_Witness ==
    /\ rpc = "done"
    /\ now >= ORACLES_VALIDATORS_TIMEOUT
    /\ outcome.type = "OraclesApproval"
    /\ \E o \in Oracles :
          /\ Len(task[o].log) = 2
          /\ task[o].attempts = 1
          /\ task[o].log[1].reply = "TimeoutError"
          /\ task[o].log[2].reply = "approval"
          /\ HasApproval(approvals, Address(o), task[o].result)

\* the replica loop of o has ended by raising last_error (line 112)
LoopExhausted(o) ==
    \/ task[o].pc = "backoff"
    \/ /\ task[o].pc = "done"
       /\ task[o].result.type = "error"
       /\ task[o].result.kind \in TransportErrors

\* C8: when every replica failed with a transient error, the error the replica
\* loop raises is the error of the last replica of the shuffled order.
C8_LastErrorRaised ==
    \A o \in Oracles :
        LoopExhausted(o) =>
            /\ Len(task[o].log) = Len(task[o].order)
            /\ Len(task[o].order) > 0
            /\ LET l == Last(task[o].log)
               IN  /\ l.endpoint = Last(task[o].order)
                   /\ task[o].last_error = Exc(l.reply, l.endpoint)
                   /\ task[o].pc = "done" => task[o].result = task[o].last_error

\* C8 witness: two replicas failed with different errors and the task ended
\* with the second
C8_Witness ==
    \E o \in Oracles :
        /\ task[o].pc = "done"
        /\ Len(task[o].log) = 2
        /\ task[o].log[1].reply = "TimeoutError"
        /\ task[o].log[2].reply = "ClientError"
        /\ task[o].result = Exc("ClientError", task[o].order[2])

\* --------------------------------------- properties of the keystore loader
\* the units whose decryption fails
Failing == { u \in Units : IsException(ProcessKeystoreFile(files[u])) }

\* C9: a Keystores value is returned only when every unit ran and succeeded,
\* and then it holds the key pair of every file; a load with a failing unit
\* ends with an error and returns nothing.
C9_NoPartialMapping ==
    /\ ks_outcome.type = "Keystores" =>
           /\ Failing = {}
           /\ \A u \in Units :
                  /\ unit[u] = "ready"
                  /\ \E i \in 1..Len(ks_outcome.keystores) :
                         ks_outcome.keystores[i]
                             = [key |-> SkToPk(files[u].key), value |-> files[u].key]
    /\ (mpc = "done" /\ Failing # {}) => ks_outcome.type = "error"

\* C9 witness: keys of valid files had been collected when a corrupted one made
\* the load fail
C9_Witness ==
    /\ mpc = "done"
    /\ Len(files) = 3
    /\ Cardinality(Failing) = 1
    /\ Len(keystores) = 2
    /\ ks_outcome.type = "error"

\* C10: whenever a keystore file fails to decrypt, load_keystores ends with
\* RuntimeError('Failed to load keystores') and with no other error.
C10_SingleAggregateError ==
    (mpc = "done" /\ Failing # {}) =>
        ks_outcome = Raised("RuntimeError", "Failed to load keystores")

\* the oracle an address belongs to
OracleOf(address) == address[2]

\* the replica URLs configured for oracle o
Replicas(o) == { endpoints[o][r] : r \in 1..Len(endpoints[o]) }

\* C11: in the mapping handed to the combination function every approval
\* stands under the address of the oracle whose task returned it, it was
\* answered by one of that oracle's replicas, and the addresses follow the
\* order of oracles.addresses, whatever the order in which the tasks ended.
C11_MappingByAddressOrder ==
    rpc = "done" =>
        /\ \A i \in 1..Len(approvals) :
               \E o \in Oracles :
                   /\ approvals[i].key = Address(o)
                   /\ approvals[i].value = task[o].result
                   /\ approvals[i].value.type = "approval"
                   /\ approvals[i].value.endpoint \in Replicas(o)
        /\ \A i, j \in 1..Len(approvals) :
               i < j => OracleOf(approvals[i].key) < OracleOf(approvals[j].key)

\* C11 witness: the second oracle's task ended before the first one's and both
\* approvals are in the mapping, the first oracle's first
C11_Witness ==
    /\ rpc = "done"
    /\ task[2].rank < task[1].rank
    /\ Len(approvals) = 2
    /\ approvals[1] = [key |-> Address(1), value |-> task[1].result]
    /\ approvals[2] = [key |-> Address(2), value |-> task[2].result]

\* the failure of log entry e was found to be ordinary transience (line 138)
Transient(e) ==
    /\ e.reply \in TransportErrors
    /\ e.root = <<payload.validators_root>>
    /\ e.index = <<payload.validator_index>>

\* C17 as stated: a transient failure on the last replica ends the task, and
\* over its whole life a task requests no replica more than once.
C17_NoReplicaTwice ==
    \A o \in Oracles :
        /\ task[o].pc # "backoff"
        /\ task[o].nreq <= Len(endpoints[o])

\* C17 amended: within one run of the replica loop the replicas are requested
\* one at a time in the shuffled order, each at most once, the next one only
\* after the previous failed transiently; a transient failure on the last
\* replica ends the run, after which the decorator either runs the loop again
\* or lets the task end with that error.
C17_OneRunStateMachine ==
    \A o \in Oracles :
        LET t == task[o] IN
        t.attempts >= 1 =>
            /\ t.order \in Shuffles(endpoints[o])
            /\ Len(t.log) <= Len(t.order)
            /\ t.nreq = (t.attempts - 1) * Len(t.order) + Len(t.log)
            /\ \A i \in 1..Len(t.log) :
                   /\ t.log[i].endpoint = t.order[i]
                   /\ i < Len(t.log) => Transient(t.log[i])
                   /\ t.log[i].reply = "pending" => (i = Len(t.log) /\ t.pc = "post")
            /\ (t.log # <<>> /\ Len(t.log) = Len(t.order) /\ Transient(Last(t.log))) =>
                   \/ t.pc = "backoff"
                   \/ /\ t.pc = "done"
                      /\ t.result = Exc(Last(t.log).reply, Last(t.order))

\* C17 witness: a task whose two replicas failed transiently was run again by
\* the decorator and requested its replicas a second time
C17_Witness ==
    \E o \in Oracles :
        /\ task[o].pc = "done"
        /\ task[o].attempts = 2
        /\ Len(task[o].order) = 2
        /\ task[o].nreq = 4

\* the replica URLs of the oracles among the first n whose task failed, in order
RECURSIVE FailedUrls(_)
FailedUrls(n) ==
    IF n = 0 THEN <<>>
    ELSE FailedUrls(n - 1) \o (IF task[n].result.type = "error" THEN endpoints[n] ELSE <<>>)

\* C18: after the round every oracle is in exactly one collection: its address
\* is a key of approvals iff its task returned an approval, its replica URLs
\* are in failed_endpoints iff its task failed; failed_endpoints is the
\* concatenation, in oracle order, of the failed oracles' replica lists, and
\* approved plus failed oracles make the total.
C18_Partition ==
    rpc = "done" =>
        /\ \A o \in Oracles :
               /\ task[o].result.type \in {"approval", "error"}
               /\ task[o].result.type = "approval"
                      <=> \E i \in 1..Len(approvals) : approvals[i].key = Address(o)
               /\ task[o].result.type = "approval" =>
                      \A i \in 1..Len(failed_endpoints) :
                          failed_endpoints[i] \notin Replicas(o)
        /\ failed_endpoints = FailedUrls(NumOracles)
        /\ Len(approvals) + Cardinality({ o \in Oracles : task[o].result.type = "error" })
               = NumOracles

\* C18 witness: the first oracle failed with two replicas, the second approved
C18_Witness ==
    /\ rpc = "done"
    /\ task[1].result.type = "error"
    /\ task[2].result.type = "approval"
    /\ Len(endpoints[1]) = 2
    /\ failed_endpoints = endpoints[1]
    /\ Len(approvals) = 1

\* C19: one session is created per round; it is open exactly while the tasks
\* run, every request in flight or check in progress belongs to a round whose
\* session is open, it is closed only when every task has ended, and the
\* aggregation runs on a closed session.
C19_SessionScope ==
    /\ sessions = (IF rpc = "init" THEN 0 ELSE 1)
    /\ session = "none" <=> rpc = "init"
    /\ session = "open" <=> rpc = "gather"
    /\ session = "closed" <=> rpc \in {"collect", "done"}
    /\ session = "closed" => \A o \in Oracles : task[o].pc = "done"
    /\ \A o \in Oracles :
           task[o].pc \in {"post", "check_root", "check_index", "backoff"}
               => session = "open"

\* C19 witness: a finished round in which both tasks sent requests on the one
\* session, closed before the aggregation
C19_Witness ==
    /\ rpc = "done"
    /\ sessions = 1
    /\ session = "closed"
    /\ \A o \in Oracles : task[o].nreq >= 1

\* C20: a 2xx answer whose body lacks a field ends the task at once with
\* KeyError: neither the registry root nor the index is read for it and no
\* further replica is requested.
C20_MalformedBodyEndsTask ==
    \A o \in Oracles : \A i \in 1..Len(task[o].log) :
        task[o].log[i].reply = "malformed" =>
            /\ i = Len(task[o].log)
            /\ task[o].pc = "done"
            /\ task[o].result = Exc("KeyError", task[o].log[i].endpoint)
            /\ task[o].log[i].root = <<>>
            /\ task[o].log[i].index = <<>>

\* C20 witness: the first replica of two answered with a malformed body and the
\* second was never requested
C20_Witness ==
    /\ rpc = "done"
    /\ \E o \in Oracles :
          /\ Len(task[o].order) = 2
          /\ task[o].nreq = 1
          /\ task[o].log[1].reply = "malformed"
          /\ task[o].result.kind = "KeyError"

\* C15: once a failed unit has been reported no further unit is dispatched, and
\* no unit that was dispatched is forcibly terminated: a unit waiting in the
\* pool or running there is never killed.
C15_GracefulDrain ==
    [][ /\ (\E u \in Failing : unit[u] = "ready") => Dispatched' = Dispatched
        /\ \A u \in Units : unit[u] \in {"queued", "running"} => unit'[u] # "killed" ]_vars

\* C16: the pool is closed only by the coordinating task: never by the pool's
\* result-handler thread, and never while the coordinator is still dispatching.
C16_CoordinatorOnlyWrites ==
    /\ closed_by # "result_handler"
    /\ (mpc = "pool" /\ ~AllDispatched) => pool_state = "RUN"

\* ------------------------------------------- properties of the tree builder
\* the entry with its fields in the opposite order
RECURSIVE Reverse(_)
Reverse(seq) == IF seq = <<>> THEN <<>> ELSE Append(Reverse(Tail(seq)), Head(seq))

\* C12: the validator built from the entry at 0-based position i has
\* deposit_data_index i and the leaf at that position carries i; a returned
\* build has one validator and one leaf per entry; the validator is the same
\* for the entry with its fields in the opposite order.
C12_IndexIsPosition ==
    /\ Len(validators) = Len(leaves)
    /\ \A n \in 1..Len(validators) :
           /\ validators[n].deposit_data_index = n - 1
           /\ leaves[n][2] = n - 1
           /\ leaves[n][1] = encode_tx_validator(credentials, validators[n])
           /\ validators[n] = Validator(n - 1, Reverse(deposit_data[n]))
    /\ tree_outcome.type = "DepositData" =>
           /\ tree_outcome.validators = validators
           /\ tree_outcome.tree.values = leaves
           /\ Len(tree_outcome.validators) = Len(deposit_data)
           /\ Len(tree_outcome.tree.values) = Len(deposit_data)

\* C12 witness: a tree was returned for two entries whose fields come in
\* different orders
C12_Witness ==
    /\ tpc = "done"
    /\ tree_outcome.type = "DepositData"
    /\ Len(deposit_data) = 2
    /\ deposit_data[1][1][1] = "pubkey"
    /\ deposit_data[2][1][1] = "signature"
    /\ tree_outcome.validators[2].deposit_data_index = 1

\* --------------------------------------- properties of the keystore listing
\* C14: every listed keystore file has the password of its sidecar, the file
\* named like it with '.json' at the end replaced by '.txt', when the password
\* directory has that sidecar, and the default password otherwise; the listing
\* fails only for a keystore file that has neither.
C14_PasswordResolution ==
    LET sidecar(f) == SubSeq(f, 1, Len(f) - 1) \o <<".txt">>
    IN  /\ \A n \in 1..Len(res) :
               IF sidecar(res[n].name) \in keystores_password_dir
               THEN res[n].password = Strip(Content(sidecar(res[n].name)))
               ELSE /\ keystores_password_file # <<>>
                    /\ res[n].password = Strip(keystores_password_file[1])
        /\ list_outcome.type = "error" =>
               /\ sidecar(keystores_dir[li + 1].name) \notin keystores_password_dir
               /\ keystores_password_file = <<>>

====
